---- MODULE Spec2Model ----
(***************************************************************************)
(* Replication status model and resync coordinator of the replication      *)
(* crate (crates/replication/src/types.rs, resyncer.rs).                   *)
(*                                                                         *)
(* Part 1: StatusType / VersionPurgeStatusType, the composite status       *)
(*         functions and ReplicationState::composite_*.                    *)
(* Part 2: ReplicationResyncer: status_map, mark_status, inc_stats and the *)
(*         durable resync blob.                                            *)
(* Part 3: persist_to_disk, resync_bucket and its worker slots,            *)
(*         get_replication_config, ReplicateDecision and ResyncDecision.   *)
(* Part 4: the MRF ledger and the worker pool of ReplicationPool.          *)
(***************************************************************************)
EXTENDS Integers, Sequences, FiniteSets, TLC

VARIABLES
    rs,          \* the ReplicationState under test
    nupdates,    \* entries inserted so far into the maps of rs, rd and rsd
    ret,         \* the function last called on rs or on a blob, with its result
    ncalls,      \* composite calls made since the last change of rs
    status_map,  \* ReplicationResyncer::status_map (behind its RwLock)
    durable,     \* the resync.bin blob stored for each bucket
    pc,          \* where each mark_status caller is: idle, save, ok, err
    call,        \* the arguments of a caller's mark_status in flight
    snap,        \* the bucket_status clone a caller in flight carries
    clock,       \* the instant OffsetDateTime::now_utc() last returned
    ncall,       \* mark_status and inc_stats calls started so far
    solo,        \* the caller whose call has run with no other call beside it
    save_failed, \* whether a durable write has failed so far
    last_update_times, \* persist_to_disk: last_update of each bucket's last flush
    ploop,       \* persist_to_disk: where the loop is, its scan and its flag
    cancelled,   \* whether the CancellationToken has been cancelled
    flushed,     \* what persist_to_disk wrote in this tick and the one before,
                 \* and the buckets whose write failed when last visited
    worker_slots, \* messages waiting in the worker channel
    rcall,       \* the resync_bucket call in progress
    nresync,     \* resync_bucket calls started so far
    rd,          \* ReplicateDecision::targets_map
    rsd,         \* ResyncDecision::targets
    dret,        \* the decision method last called, with what it returned
    ledger,      \* the MRF ledger: the entries recorded and not yet destroyed
    fails,       \* how often each operation's execution has failed so far
    queues,      \* ReplicationPool::workers: the inbound queue of each worker
    active_workers, \* ReplicationPool::active_workers
    submitted,   \* the operations submitted to the pool so far
    executed,    \* the operations a worker has taken and executed
    moved        \* the operations a resize has moved to another worker's queue

statusVars == <<rs, nupdates, ret, ncalls>>

resyncVars == <<status_map, durable, pc, call, snap, clock, ncall, solo, save_failed>>

loopVars == <<last_update_times, ploop, cancelled, flushed>>

workerVars == <<worker_slots, rcall, nresync>>

decisionVars == <<rd, rsd, dret>>

mrfVars == <<ledger, fails>>

poolVars == <<queues, active_workers, submitted, executed, moved>>

vars == <<rs, nupdates, ret, ncalls,
          status_map, durable, pc, call, snap, clock, ncall, solo, save_failed,
          last_update_times, ploop, cancelled, flushed,
          worker_slots, rcall, nresync, rd, rsd, dret,
          ledger, fails, queues, active_workers, submitted, executed, moved>>

-----------------------------------------------------------------------------
(* Bounds *)

\* Target updates applied in one behaviour of SpecComposite.
MaxUpdates == 3

\* Times a composite is recomputed on an unchanged state.
MaxRecompute == 2

\* Timestamps are 1..MaxTime.
MaxTime == 2

Arns == {"arn1", "arn2", "arn3"}

\* Option<OffsetDateTime>: None is 0, Some(t) is the instant t >= 1.
None == 0

NoCall == [fn |-> "none", value |-> "none"]

-----------------------------------------------------------------------------
(* types.rs: StatusType, VersionPurgeStatusType *)

StatusType == {"Pending", "Completed", "CompletedLegacy", "Failed", "Replica", "Empty"}

VersionPurgeStatusType == {"Pending", "Complete", "Failed", "Empty"}

\* impl From<&str> for StatusType
StatusTypeFrom(s) ==
    CASE s = "PENDING" -> "Pending"
      [] s = "COMPLETED" -> "Completed"
      [] s = "COMPLETE" -> "CompletedLegacy"
      [] s = "FAILED" -> "Failed"
      [] s = "REPLICA" -> "Replica"
      [] OTHER -> "Empty"

\* impl From<&str> for VersionPurgeStatusType
VersionPurgeStatusTypeFrom(s) ==
    CASE s = "PENDING" -> "Pending"
      [] s = "COMPLETE" -> "Complete"
      [] s = "FAILED" -> "Failed"
      [] OTHER -> "Empty"

\* Values of replication_status_internal: the empty string, the five status
\* strings, a per-target encoding and a string in the wrong case.
ReplInternalStrings ==
    {"", "PENDING", "COMPLETED", "COMPLETE", "FAILED", "REPLICA",
     "arn1=COMPLETED;arn2=PENDING;", "pending"}

\* Values of version_purge_status_internal.
PurgeInternalStrings ==
    {"", "PENDING", "COMPLETE", "FAILED", "COMPLETED", "arn1=COMPLETE;"}

-----------------------------------------------------------------------------
(* HashMap<String, V> as a function on a subset of Arns *)

EmptyMap == [a \in {} |-> "Empty"]

\* HashMap::insert: adds the entry or replaces the entry of the same key.
MapInsert(m, k, v) == [x \in (DOMAIN m) \cup {k} |-> IF x = k THEN v ELSE m[x]]

\* HashMap::values() visits the entries in an unspecified order: every
\* enumeration of the keys without repetition is a possible order.
IterOrders(m) ==
    {o \in [1..Cardinality(DOMAIN m) -> DOMAIN m] :
        \A i, j \in 1..Cardinality(DOMAIN m) : o[i] = o[j] => i = j}

Maps(V) == UNION {[D -> V] : D \in SUBSET Arns}

-----------------------------------------------------------------------------
(* types.rs: get_composite_replication_status *)

RECURSIVE ReplStatusLoop(_, _, _, _)

\* Variant of the loop whose final test is `completed > 0`.
M_ReplStatusLoop_AnyCompleted(targets, order, i, completed) ==
    IF i > Len(order)
    THEN IF completed > 0 THEN "Completed" ELSE "Pending"
    ELSE CASE targets[order[i]] = "Failed" -> "Failed"
           [] targets[order[i]] = "Completed" ->
                ReplStatusLoop(targets, order, i + 1, completed + 1)
           [] OTHER -> ReplStatusLoop(targets, order, i + 1, completed)

\* The for loop of get_composite_replication_status and the test after it.
ReplStatusLoop(targets, order, i, completed) ==
    IF i > Len(order)
    THEN IF completed = Cardinality(DOMAIN targets) THEN "Completed" ELSE "Pending"
    ELSE CASE targets[order[i]] = "Failed" -> "Failed"
           [] targets[order[i]] = "Completed" ->
                ReplStatusLoop(targets, order, i + 1, completed + 1)
           [] OTHER -> ReplStatusLoop(targets, order, i + 1, completed)

\* `order` is the order in which targets.values() visits the entries.
get_composite_replication_status(targets, order) ==
    IF DOMAIN targets = {}
    THEN "Empty"
    ELSE ReplStatusLoop(targets, order, 1, 0)

(* types.rs: get_composite_version_purge_status *)

RECURSIVE PurgeStatusLoop(_, _, _, _)

\* Variant of the loop that returns Pending at the first target that is
\* neither Failed nor Complete.
M_PurgeStatusLoop_FirstDecides(targets, order, i, completed) ==
    IF i > Len(order)
    THEN IF completed = Cardinality(DOMAIN targets) THEN "Complete" ELSE "Pending"
    ELSE CASE targets[order[i]] = "Failed" -> "Failed"
           [] targets[order[i]] = "Complete" ->
                PurgeStatusLoop(targets, order, i + 1, completed + 1)
           [] OTHER -> "Pending"

\* The for loop of get_composite_version_purge_status and the test after it.
PurgeStatusLoop(targets, order, i, completed) ==
    IF i > Len(order)
    THEN IF completed = Cardinality(DOMAIN targets) THEN "Complete" ELSE "Pending"
    ELSE CASE targets[order[i]] = "Failed" -> "Failed"
           [] targets[order[i]] = "Complete" ->
                PurgeStatusLoop(targets, order, i + 1, completed + 1)
           [] OTHER -> PurgeStatusLoop(targets, order, i + 1, completed)

get_composite_version_purge_status(targets, order) ==
    IF DOMAIN targets = {}
    THEN "Empty"
    ELSE PurgeStatusLoop(targets, order, 1, 0)

-----------------------------------------------------------------------------
(* types.rs: ReplicationState *)

\* ReplicationState::new() (Default): the fields the composite functions read.
ReplicationState_new ==
    [replica_timestamp |-> None,
     replica_status |-> "Empty",
     replication_timestamp |-> None,
     replication_status_internal |-> "",
     version_purge_status_internal |-> "",
     targets |-> EmptyMap,
     purge_targets |-> EmptyMap]

\* Variant that does not return a decoded Replica verbatim.
M_composite_replication_status_NoReplica(self, order) ==
    IF self.replication_status_internal # ""
    THEN IF StatusTypeFrom(self.replication_status_internal)
               \in {"Pending", "Completed", "Failed"}
         THEN StatusTypeFrom(self.replication_status_internal)
         ELSE LET repl_status == get_composite_replication_status(self.targets, order)
              IN  IF self.replica_timestamp = None
                  THEN repl_status
                  ELSE IF /\ repl_status = "Completed"
                          /\ self.replication_timestamp # None
                          /\ self.replica_timestamp > self.replication_timestamp
                       THEN self.replica_status
                       ELSE repl_status
    ELSE IF self.replica_status # "Empty"
         THEN self.replica_status
         ELSE "Empty"

\* Variant whose recency test is `>=`.
M_composite_replication_status_Ge(self, order) ==
    IF self.replication_status_internal # ""
    THEN IF StatusTypeFrom(self.replication_status_internal)
               \in {"Pending", "Completed", "Failed", "Replica"}
         THEN StatusTypeFrom(self.replication_status_internal)
         ELSE LET repl_status == get_composite_replication_status(self.targets, order)
              IN  IF self.replica_timestamp = None
                  THEN repl_status
                  ELSE IF /\ repl_status = "Completed"
                          /\ self.replication_timestamp # None
                          /\ self.replica_timestamp >= self.replication_timestamp
                       THEN self.replica_status
                       ELSE repl_status
    ELSE IF self.replica_status # "Empty"
         THEN self.replica_status
         ELSE "Empty"

\* ReplicationState::composite_replication_status
composite_replication_status(self, order) ==
    IF self.replication_status_internal # ""
    THEN IF StatusTypeFrom(self.replication_status_internal)
               \in {"Pending", "Completed", "Failed", "Replica"}
         THEN StatusTypeFrom(self.replication_status_internal)
         ELSE LET repl_status == get_composite_replication_status(self.targets, order)
              IN  IF self.replica_timestamp = None
                  THEN repl_status
                  ELSE IF /\ repl_status = "Completed"
                          /\ self.replication_timestamp # None
                          /\ self.replica_timestamp > self.replication_timestamp
                       THEN self.replica_status
                       ELSE repl_status
    ELSE IF self.replica_status # "Empty"
         THEN self.replica_status
         ELSE "Empty"

\* ReplicationState::composite_version_purge_status
composite_version_purge_status(self, order) ==
    IF VersionPurgeStatusTypeFrom(self.version_purge_status_internal)
          \in {"Pending", "Complete", "Failed"}
    THEN VersionPurgeStatusTypeFrom(self.version_purge_status_internal)
    ELSE get_composite_version_purge_status(self.purge_targets, order)

-----------------------------------------------------------------------------
(* resyncer.rs: ResyncStatusType, TargetReplicationResyncStatus,            *)
(* BucketReplicationResyncStatus                                            *)

RESYNC_META_FORMAT == 1

RESYNC_META_VERSION == 1

ResyncStatusType ==
    {"NoResync", "ResyncPending", "ResyncCanceled", "ResyncStarted",
     "ResyncCompleted", "ResyncFailed"}

\* Option<String>::None of TargetReplicationResyncStatus::error.
NoError == "<none>"

\* TargetReplicationResyncStatus::new() (Default)
TargetReplicationResyncStatus_new ==
    [start_time |-> None,
     last_update |-> None,
     resync_id |-> "",
     resync_before_date |-> None,
     resync_status |-> "NoResync",
     failed_size |-> 0,
     failed_count |-> 0,
     replicated_size |-> 0,
     replicated_count |-> 0,
     bucket |-> "",
     object |-> "",
     error |-> NoError]

NoTargets == [a \in {} |-> TargetReplicationResyncStatus_new]

\* BucketReplicationResyncStatus::new(): version set, the rest Default.
BucketReplicationResyncStatus_new ==
    [version |-> RESYNC_META_VERSION,
     targets_map |-> NoTargets,
     id |-> 0,
     last_update |-> None]

\* rmp_serde::to_vec writes a struct as the array of its fields in
\* declaration order.
MarshalTarget(t) ==
    <<t.start_time, t.last_update, t.resync_id, t.resync_before_date,
      t.resync_status, t.failed_size, t.failed_count, t.replicated_size,
      t.replicated_count, t.bucket, t.object, t.error>>

\* Variant that reads failed_size and failed_count in the other order.
M_UnmarshalTarget_SwappedFailed(b) ==
    [start_time |-> b[1], last_update |-> b[2], resync_id |-> b[3],
     resync_before_date |-> b[4], resync_status |-> b[5], failed_size |-> b[7],
     failed_count |-> b[6], replicated_size |-> b[8], replicated_count |-> b[9],
     bucket |-> b[10], object |-> b[11], error |-> b[12]]

\* rmp_serde::from_slice reads the fields back in declaration order.
UnmarshalTarget(b) ==
    [start_time |-> b[1], last_update |-> b[2], resync_id |-> b[3],
     resync_before_date |-> b[4], resync_status |-> b[5], failed_size |-> b[6],
     failed_count |-> b[7], replicated_size |-> b[8], replicated_count |-> b[9],
     bucket |-> b[10], object |-> b[11], error |-> b[12]]

\* BucketReplicationResyncStatus::marshal_msg
marshal_msg(status) ==
    <<status.version,
      [a \in DOMAIN status.targets_map |-> MarshalTarget(status.targets_map[a])],
      status.id,
      status.last_update>>

\* BucketReplicationResyncStatus::unmarshal_msg
unmarshal_msg(data) ==
    [version |-> data[1],
     targets_map |-> [a \in DOMAIN data[2] |-> UnmarshalTarget(data[2][a])],
     id |-> data[3],
     last_update |-> data[4]]

\* byteorder::LittleEndian::write_u16: the low byte, then the high byte.
write_u16(v) == <<v % 256, v \div 256>>

\* The bytes save_resync_status hands to save_config: the two bytes of the
\* format id, the two bytes of the version id, then the encoded status.
ResyncBlob(status) ==
    [format |-> write_u16(RESYNC_META_FORMAT),
     version |-> write_u16(RESYNC_META_VERSION),
     body |-> marshal_msg(status)]

\* save_resync_status, when save_config succeeds: the blob replaces the
\* bucket's resync.bin.
save_resync_status(store, bucket, status) ==
    [b \in (DOMAIN store) \cup {bucket} |->
        IF b = bucket THEN ResyncBlob(status) ELSE store[b]]

\* byteorder::LittleEndian::read_u16, the inverse of write_u16.
read_u16(b) == b[1] + 256 * b[2]

\* The reader of resync.bin: it validates the format id and the version id
\* before it decodes, and rejects a blob whose header holds other values.
load_resync_status(data) ==
    IF read_u16(data.format) # RESYNC_META_FORMAT
    THEN [tag |-> "Err", err |-> "format", status |-> BucketReplicationResyncStatus_new]
    ELSE IF read_u16(data.version) # RESYNC_META_VERSION
         THEN [tag |-> "Err", err |-> "version", status |-> BucketReplicationResyncStatus_new]
         ELSE [tag |-> "Ok", err |-> "", status |-> unmarshal_msg(data.body)]

NoBuckets == [b \in {} |-> BucketReplicationResyncStatus_new]

NoBlobs == [b \in {} |-> ResyncBlob(BucketReplicationResyncStatus_new)]

\* The status and the ResyncOpts fields mark_status reads (bucket, arn), for
\* a caller that is not inside mark_status.
NoOpts == [status |-> "NoResync", bucket |-> "", arn |-> ""]

\* The tasks that call mark_status.
Callers == {"p1", "p2"}

\* The worker channel is created with this capacity and filled by new().
RESYNC_WORKER_COUNT == 10

\* persist_to_disk: let mut last_update_times = HashMap::new().
NoTimes == [b \in {} |-> None]

\* The persist loop before persist_to_disk is called.  pc is unstarted,
\* select (suspended in tokio::select!), scan (inside the tick branch, the
\* read lock held) or returned; todo is what is left of status_map.iter();
\* update is the tick's `update` flag; nticks counts the ticks taken.
LoopUnstarted == [pc |-> "unstarted", todo |-> <<>>, update |-> FALSE, nticks |-> 0]

\* Nothing written by the persist loop yet.
NoFlushes == [cur |-> NoBuckets, prev |-> NoBuckets, err |-> {}]

\* No resync_bucket call in progress.  pc is idle, acquire (suspended in
\* tokio::select!), lookup (slot taken, get_replication_config not yet
\* returned), returned or panicked; lookup and cfg are the metadata lookup's
\* outcome and what get_replication_config made of it.
NoResult == [tag |-> "none", val |-> ""]

NoResyncCall == [pc |-> "idle", lookup |-> NoResult, cfg |-> NoResult]

\* ReplicationResyncer::new(): an empty status_map; nothing stored yet.
ResyncerNew ==
    /\ status_map = NoBuckets
    /\ durable = NoBlobs
    /\ pc = [p \in Callers |-> "idle"]
    /\ call = [p \in Callers |-> NoOpts]
    /\ snap = [p \in Callers |-> BucketReplicationResyncStatus_new]
    /\ clock = 1
    /\ ncall = 0
    /\ solo = [p \in Callers |-> FALSE]
    /\ save_failed = FALSE
    /\ last_update_times = NoTimes
    /\ ploop = LoopUnstarted
    /\ cancelled = FALSE
    /\ flushed = NoFlushes
    /\ worker_slots = RESYNC_WORKER_COUNT
    /\ rcall = NoResyncCall
    /\ nresync = 0

\* ReplicateTargetDecision::default(), the value of an absent entry.
NoDecisions == [a \in {} |-> [replicate |-> FALSE, synchronous |-> FALSE, arn |-> "", id |-> ""]]

NoResyncDecisions == [a \in {} |-> [replicate |-> FALSE, reset_id |-> "", reset_before_date |-> None]]

NoDecisionCall == [fn |-> "none", arg |-> "", value |-> FALSE]

\* ReplicateDecision::new() and ResyncDecision::new(): empty maps.
DecisionsNew ==
    /\ rd = NoDecisions
    /\ rsd = NoResyncDecisions
    /\ dret = NoDecisionCall

\* The operations handed to the pool: ReplicateObjectInfo values, of which
\* the model keeps bucket, name, version_id, size and retry_count.
PoolOps ==
    {[bucket |-> "b1", name |-> "o1", version_id |-> "v1", size |-> 1, retry_count |-> 0],
     [bucket |-> "b1", name |-> "o2", version_id |-> "v1", size |-> 2, retry_count |-> 0],
     [bucket |-> "b2", name |-> "o1", version_id |-> "v2", size |-> 1, retry_count |-> 0]}

\* A ReplicationPool with no worker started and an empty MRF ledger.
PoolNew ==
    /\ ledger = <<>>
    /\ fails = [op \in PoolOps |-> 0]
    /\ queues = <<>>
    /\ active_workers = 0
    /\ submitted = {}
    /\ executed = {}
    /\ moved = {}

-----------------------------------------------------------------------------
(* SpecComposite: target statuses arrive one at a time, in any order, and   *)
(* the free composite functions are applied to the maps.                    *)

InitComposite ==
    /\ rs = ReplicationState_new
    /\ nupdates = 0
    /\ ret = NoCall
    /\ ncalls = 0
    /\ ResyncerNew
    /\ DecisionsNew
    /\ PoolNew

\* A target's replication status arrives: targets.insert(arn, st).
InsertTarget(arn, st) ==
    /\ nupdates < MaxUpdates
    /\ rs' = [rs EXCEPT !.targets = MapInsert(rs.targets, arn, st)]
    /\ nupdates' = nupdates + 1
    /\ ret' = NoCall
    /\ ncalls' = 0
    /\ UNCHANGED resyncVars
    /\ UNCHANGED <<loopVars, workerVars, decisionVars>>
    /\ UNCHANGED <<mrfVars, poolVars>>

\* A target's purge status arrives: purge_targets.insert(arn, st).
InsertPurgeTarget(arn, st) ==
    /\ nupdates < MaxUpdates
    /\ rs' = [rs EXCEPT !.purge_targets = MapInsert(rs.purge_targets, arn, st)]
    /\ nupdates' = nupdates + 1
    /\ ret' = NoCall
    /\ ncalls' = 0
    /\ UNCHANGED resyncVars
    /\ UNCHANGED <<loopVars, workerVars, decisionVars>>
    /\ UNCHANGED <<mrfVars, poolVars>>

\* get_composite_replication_status(&rs.targets): takes the map by shared
\* reference and returns a value.
CallGetCompositeReplicationStatus ==
    /\ ncalls < MaxRecompute
    /\ \E order \in IterOrders(rs.targets) :
          ret' = [fn |-> "get_composite_replication_status",
                  value |-> get_composite_replication_status(rs.targets, order)]
    /\ ncalls' = ncalls + 1
    /\ UNCHANGED <<rs, nupdates>>
    /\ UNCHANGED resyncVars
    /\ UNCHANGED <<loopVars, workerVars, decisionVars>>
    /\ UNCHANGED <<mrfVars, poolVars>>

\* get_composite_version_purge_status(&rs.purge_targets)
CallGetCompositeVersionPurgeStatus ==
    /\ ncalls < MaxRecompute
    /\ \E order \in IterOrders(rs.purge_targets) :
          ret' = [fn |-> "get_composite_version_purge_status",
                  value |-> get_composite_version_purge_status(rs.purge_targets, order)]
    /\ ncalls' = ncalls + 1
    /\ UNCHANGED <<rs, nupdates>>
    /\ UNCHANGED resyncVars
    /\ UNCHANGED <<loopVars, workerVars, decisionVars>>
    /\ UNCHANGED <<mrfVars, poolVars>>

NextComposite ==
    \/ \E arn \in Arns, st \in StatusType : InsertTarget(arn, st)
    \/ \E arn \in Arns, st \in VersionPurgeStatusType : InsertPurgeTarget(arn, st)
    \/ CallGetCompositeReplicationStatus
    \/ CallGetCompositeVersionPurgeStatus

SpecComposite == InitComposite /\ [][NextComposite]_vars

-----------------------------------------------------------------------------
(* SpecState: a ReplicationState is drawn from the input sets and its two   *)
(* composite methods are applied to it.                                     *)

\* The values of an Option<OffsetDateTime> field.
Timestamps == {None} \cup (1..MaxTime)

\* The methods are applied to states with at most two targets.
StateArns == {"arn1", "arn2"}

StateMaps(V) == UNION {[D -> V] : D \in SUBSET StateArns}

\* composite_replication_status reads replica_timestamp, replica_status,
\* replication_timestamp, replication_status_internal and targets.
ReplicationInputs ==
    {[ReplicationState_new EXCEPT
         !.replica_timestamp = rts, !.replica_status = rst,
         !.replication_timestamp = pts, !.replication_status_internal = rsi,
         !.targets = t] :
       rts \in Timestamps, rst \in StatusType, pts \in Timestamps,
       rsi \in ReplInternalStrings, t \in StateMaps(StatusType)}

\* composite_version_purge_status reads version_purge_status_internal and
\* purge_targets.
PurgeInputs ==
    {[ReplicationState_new EXCEPT
         !.version_purge_status_internal = vpsi, !.purge_targets = t] :
       vpsi \in PurgeInternalStrings, t \in StateMaps(VersionPurgeStatusType)}

InitState ==
    /\ rs \in ReplicationInputs \cup PurgeInputs
    /\ nupdates = 0
    /\ ret = NoCall
    /\ ncalls = 0
    /\ ResyncerNew
    /\ DecisionsNew
    /\ PoolNew

\* rs.composite_replication_status(): &self, returns a value.
CallCompositeReplicationStatus ==
    /\ ncalls < MaxRecompute
    /\ \E order \in IterOrders(rs.targets) :
          ret' = [fn |-> "composite_replication_status",
                  value |-> composite_replication_status(rs, order)]
    /\ ncalls' = ncalls + 1
    /\ UNCHANGED <<rs, nupdates>>
    /\ UNCHANGED resyncVars
    /\ UNCHANGED <<loopVars, workerVars, decisionVars>>
    /\ UNCHANGED <<mrfVars, poolVars>>

\* rs.composite_version_purge_status()
CallCompositeVersionPurgeStatus ==
    /\ ncalls < MaxRecompute
    /\ \E order \in IterOrders(rs.purge_targets) :
          ret' = [fn |-> "composite_version_purge_status",
                  value |-> composite_version_purge_status(rs, order)]
    /\ ncalls' = ncalls + 1
    /\ UNCHANGED <<rs, nupdates>>
    /\ UNCHANGED resyncVars
    /\ UNCHANGED <<loopVars, workerVars, decisionVars>>
    /\ UNCHANGED <<mrfVars, poolVars>>

NextState ==
    \/ CallCompositeReplicationStatus
    \/ CallCompositeVersionPurgeStatus

SpecState == InitState /\ [][NextState]_vars

-----------------------------------------------------------------------------
(* SpecResync: mark_status and inc_stats called by concurrent tasks.        *)
(* mark_status is two steps, the block under the write lock and the durable *)
(* write after the lock is released; inc_stats is one step under the write  *)
(* lock.                                                                    *)

\* mark_status and inc_stats calls started in one behaviour.
MaxCalls == 3

Buckets == {"b1"}

ResyncArns == {"t1", "t2"}

ResyncIds == {"r1", "r2"}

\* OffsetDateTime::now_utc() after the clock showed c.  Every reading is
\* taken to be later than the one before it; no property stated under
\* SpecResync compares two instants.
NowReads(c) == {c + 1}

\* The statistics passed to inc_stats: one replicated object, one failed
\* object, and a record with negative counts (the fields are i64).  The
\* sums stay far from the i64 limits.
Deltas ==
    {[TargetReplicationResyncStatus_new EXCEPT
         !.object = "o1", !.replicated_count = 1, !.replicated_size = 2],
     [TargetReplicationResyncStatus_new EXCEPT
         !.object = "o1", !.failed_count = 1, !.failed_size = 2],
     [TargetReplicationResyncStatus_new EXCEPT
         !.object = "o1", !.replicated_count = -1, !.replicated_size = -2]}

\* status_map.get_mut(bucket), inserting BucketReplicationResyncStatus::new()
\* with id = 0 when the bucket is absent.
WithBucket(sm, bucket) ==
    IF bucket \in DOMAIN sm
    THEN sm
    ELSE [b \in (DOMAIN sm) \cup {bucket} |->
             IF b = bucket
             THEN [BucketReplicationResyncStatus_new EXCEPT !.id = 0]
             ELSE sm[b]]

\* bucket_status.targets_map.get_mut(arn), inserting
\* TargetReplicationResyncStatus::new() when the target is absent.
WithTarget(tm, arn) ==
    IF arn \in DOMAIN tm
    THEN tm
    ELSE [a \in (DOMAIN tm) \cup {arn} |->
             IF a = arn THEN TargetReplicationResyncStatus_new ELSE tm[a]]

\* Variant that stores a new record for the target instead of updating
\* the one the map holds.
M_MarkStatusUpdate_FreshRecord(sm, status, bucket, arn, t1, t2) ==
    LET sm1 == WithBucket(sm, bucket)
        tm == WithTarget(sm1[bucket].targets_map, arn)
        state == [TargetReplicationResyncStatus_new EXCEPT
                     !.resync_status = status, !.last_update = t1]
    IN  [sm1 EXCEPT ![bucket] =
            [sm1[bucket] EXCEPT !.targets_map = [tm EXCEPT ![arn] = state],
                                !.last_update = t2]]

\* Variant that records start_time on ResyncStarted from the second reading
\* of the clock, taken after the record's last_update.
M_MarkStatusUpdate_LateStart(sm, status, bucket, arn, t1, t2) ==
    LET sm1 == WithBucket(sm, bucket)
        tm == WithTarget(sm1[bucket].targets_map, arn)
        state == [tm[arn] EXCEPT
                     !.resync_status = status,
                     !.last_update = t1,
                     !.start_time = IF status = "ResyncStarted" THEN t2 ELSE @]
    IN  [sm1 EXCEPT ![bucket] =
            [sm1[bucket] EXCEPT !.targets_map = [tm EXCEPT ![arn] = state],
                                !.last_update = t2]]

\* The block of mark_status under the write lock; t1 and t2 are the two
\* readings of now_utc().  opts.resync_id and opts.resync_before are not read.
MarkStatusUpdate(sm, status, bucket, arn, t1, t2) ==
    LET sm1 == WithBucket(sm, bucket)
        tm == WithTarget(sm1[bucket].targets_map, arn)
        state == [tm[arn] EXCEPT !.resync_status = status, !.last_update = t1]
    IN  [sm1 EXCEPT ![bucket] =
            [sm1[bucket] EXCEPT !.targets_map = [tm EXCEPT ![arn] = state],
                                !.last_update = t2]]

\* The body of inc_stats, all of it under the write lock.
IncStatsUpdate(sm, delta, bucket, arn, t1, t2) ==
    LET sm1 == WithBucket(sm, bucket)
        tm == WithTarget(sm1[bucket].targets_map, arn)
        state == [tm[arn] EXCEPT
                     !.object = delta.object,
                     !.replicated_count = @ + delta.replicated_count,
                     !.replicated_size = @ + delta.replicated_size,
                     !.failed_count = @ + delta.failed_count,
                     !.failed_size = @ + delta.failed_size,
                     !.last_update = t1]
    IN  [sm1 EXCEPT ![bucket] =
            [sm1[bucket] EXCEPT !.targets_map = [tm EXCEPT ![arn] = state],
                                !.last_update = t2]]

\* Variant of the first step that clones the bucket's status before the
\* record is updated.
M_MarkUpdate_CloneFirst(p, status, bucket, arn, rid, t1, t2) ==
    /\ pc[p] # "save"
    /\ ncall < MaxCalls
    /\ ploop.pc # "scan"
    /\ status_map' = MarkStatusUpdate(status_map, status, bucket, arn, t1, t2)
    /\ snap' = [snap EXCEPT ![p] = WithBucket(status_map, bucket)[bucket]]
    /\ call' = [call EXCEPT ![p] =
                   [status |-> status, bucket |-> bucket, arn |-> arn]]
    /\ pc' = [pc EXCEPT ![p] = "save"]
    /\ clock' = t2
    /\ ncall' = ncall + 1
    /\ solo' = [q \in Callers |-> q = p /\ \A r \in Callers \ {p} : pc[r] # "save"]
    /\ UNCHANGED <<durable, save_failed>>
    /\ UNCHANGED statusVars
    /\ UNCHANGED <<loopVars, workerVars, decisionVars>>
    /\ UNCHANGED <<mrfVars, poolVars>>

\* mark_status, first step: the write lock is taken, the record is updated,
\* the bucket's status is cloned and the lock is released.  rid is
\* opts.resync_id, which the function never reads.  The write lock is
\* granted only while persist_to_disk does not hold the read lock.
MarkUpdate(p, status, bucket, arn, rid, t1, t2) ==
    /\ pc[p] # "save"
    /\ ncall < MaxCalls
    /\ ploop.pc # "scan"
    /\ status_map' = MarkStatusUpdate(status_map, status, bucket, arn, t1, t2)
    /\ snap' = [snap EXCEPT ![p] = status_map'[bucket]]
    /\ call' = [call EXCEPT ![p] =
                   [status |-> status, bucket |-> bucket, arn |-> arn]]
    /\ pc' = [pc EXCEPT ![p] = "save"]
    /\ clock' = t2
    /\ ncall' = ncall + 1
    /\ solo' = [q \in Callers |-> q = p /\ \A r \in Callers \ {p} : pc[r] # "save"]
    /\ UNCHANGED <<durable, save_failed>>
    /\ UNCHANGED statusVars
    /\ UNCHANGED <<loopVars, workerVars, decisionVars>>
    /\ UNCHANGED <<mrfVars, poolVars>>

\* mark_status, second step: save_resync_status writes the clone and
\* mark_status returns Ok(()).
MarkSaveOk(p) ==
    /\ pc[p] = "save"
    /\ durable' = save_resync_status(durable, call[p].bucket, snap[p])
    /\ pc' = [pc EXCEPT ![p] = "ok"]
    /\ call' = [call EXCEPT ![p] = NoOpts]
    /\ snap' = [snap EXCEPT ![p] = BucketReplicationResyncStatus_new]
    /\ solo' = [q \in Callers |-> q = p /\ solo[p]]
    /\ UNCHANGED <<status_map, clock, ncall, save_failed>>
    /\ UNCHANGED statusVars
    /\ UNCHANGED <<loopVars, workerVars, decisionVars>>
    /\ UNCHANGED <<mrfVars, poolVars>>

\* Variant of the failing second step that undoes the call's update of the
\* target's record before it returns the error.
M_MarkSaveErr_RollBack(p) ==
    /\ pc[p] = "save"
    /\ pc' = [pc EXCEPT ![p] = "err"]
    /\ status_map' = [status_map EXCEPT
          ![call[p].bucket].targets_map[call[p].arn] = TargetReplicationResyncStatus_new]
    /\ call' = [call EXCEPT ![p] = NoOpts]
    /\ snap' = [snap EXCEPT ![p] = BucketReplicationResyncStatus_new]
    /\ solo' = [q \in Callers |-> FALSE]
    /\ save_failed' = TRUE
    /\ UNCHANGED <<durable, clock, ncall>>
    /\ UNCHANGED statusVars
    /\ UNCHANGED <<loopVars, workerVars, decisionVars>>
    /\ UNCHANGED <<mrfVars, poolVars>>

\* mark_status, second step: save_config fails, nothing is written and the
\* error is returned with `?`.
MarkSaveErr(p) ==
    /\ pc[p] = "save"
    /\ pc' = [pc EXCEPT ![p] = "err"]
    /\ call' = [call EXCEPT ![p] = NoOpts]
    /\ snap' = [snap EXCEPT ![p] = BucketReplicationResyncStatus_new]
    /\ solo' = [q \in Callers |-> FALSE]
    /\ save_failed' = TRUE
    /\ UNCHANGED <<status_map, durable, clock, ncall>>
    /\ UNCHANGED statusVars
    /\ UNCHANGED <<loopVars, workerVars, decisionVars>>
    /\ UNCHANGED <<mrfVars, poolVars>>

\* Variant of inc_stats that also writes the bucket's blob.
M_IncStats_Flush(delta, bucket, arn, t1, t2) ==
    /\ ncall < MaxCalls
    /\ ploop.pc # "scan"
    /\ status_map' = IncStatsUpdate(status_map, delta, bucket, arn, t1, t2)
    /\ durable' = save_resync_status(durable, bucket, status_map'[bucket])
    /\ clock' = t2
    /\ ncall' = ncall + 1
    /\ solo' = [q \in Callers |-> FALSE]
    /\ UNCHANGED <<pc, call, snap, save_failed>>
    /\ UNCHANGED statusVars
    /\ UNCHANGED <<loopVars, workerVars, decisionVars>>
    /\ UNCHANGED <<mrfVars, poolVars>>

\* inc_stats(delta, {bucket, arn}), called by any task.  The write lock is
\* granted only while persist_to_disk does not hold the read lock.
IncStats(delta, bucket, arn, t1, t2) ==
    /\ ncall < MaxCalls
    /\ ploop.pc # "scan"
    /\ status_map' = IncStatsUpdate(status_map, delta, bucket, arn, t1, t2)
    /\ clock' = t2
    /\ ncall' = ncall + 1
    /\ solo' = [q \in Callers |-> FALSE]
    /\ UNCHANGED <<durable, pc, call, snap, save_failed>>
    /\ UNCHANGED statusVars
    /\ UNCHANGED <<loopVars, workerVars, decisionVars>>
    /\ UNCHANGED <<mrfVars, poolVars>>

InitResync ==
    /\ rs = ReplicationState_new
    /\ nupdates = 0
    /\ ret = NoCall
    /\ ncalls = 0
    /\ ResyncerNew
    /\ DecisionsNew
    /\ PoolNew

\* The steps of the resyncer when the tasks in P call mark_status and the
\* calls name the buckets in B.
ResyncStep(P, B) ==
    \/ \E p \in P, status \in ResyncStatusType, bucket \in B,
          arn \in ResyncArns, rid \in ResyncIds :
          \E t1 \in NowReads(clock) : \E t2 \in NowReads(t1) :
             MarkUpdate(p, status, bucket, arn, rid, t1, t2)
    \/ \E p \in P : MarkSaveOk(p)
    \/ \E p \in P : MarkSaveErr(p)
    \/ \E delta \in Deltas, bucket \in B, arn \in ResyncArns :
          \E t1 \in NowReads(clock) : \E t2 \in NowReads(t1) :
             IncStats(delta, bucket, arn, t1, t2)

NextResync == ResyncStep(Callers, Buckets)

SpecResync == InitResync /\ [][NextResync]_vars

\* One task calls mark_status; inc_stats may still run between the two
\* steps of a call.
NextResyncOne == ResyncStep({"p1"}, Buckets)

SpecResyncOne == InitResync /\ [][NextResyncOne]_vars

-----------------------------------------------------------------------------
(* SpecPersist: persist_to_disk runs beside mark_status and inc_stats.  A   *)
(* tick takes the read lock and visits the buckets one at a time; the lock  *)
(* is held across the saves, so no record changes during a scan.            *)

\* Ticks the persist loop takes in one behaviour.
MaxTicks == 3

PersistBuckets == {"b1", "b2"}

PersistArns == {"t1"}

PersistStatuses == {"ResyncStarted"}

PersistDeltas ==
    {[TargetReplicationResyncStatus_new EXCEPT
         !.object = "o1", !.replicated_count = 1, !.replicated_size = 2]}

\* OffsetDateTime::UNIX_EPOCH, earlier than every reading of now_utc().
UNIX_EPOCH == 0

\* *last_update_times.get(bucket).unwrap_or(&OffsetDateTime::UNIX_EPOCH)
LastFlushTime(times, bucket) ==
    IF bucket \in DOMAIN times THEN times[bucket] ELSE UNIX_EPOCH

\* The value of `update` after the two tests made on a bucket: it starts
\* from the value the bucket before left, is set when a target has no
\* last_update, and is set when the bucket's last_update is later than the
\* time recorded at its last save.
UpdateFlag(update, status, times, bucket) ==
    \/ update
    \/ \E a \in DOMAIN status.targets_map : status.targets_map[a].last_update = None
    \/ /\ status.last_update # None
       /\ status.last_update > LastFlushTime(times, bucket)

\* select! takes the tick branch: the read lock is taken, update = false,
\* and status_map.iter() starts in some order of the HashMap.  The macro
\* has no `biased;`, so of two ready branches either may be taken: a tick
\* can start with the token cancelled.
PersistTick(order) ==
    /\ ploop.pc = "select"
    /\ ploop.nticks < MaxTicks
    /\ ploop' = [pc |-> "scan", todo |-> order, update |-> FALSE,
                 nticks |-> ploop.nticks + 1]
    /\ flushed' = [flushed EXCEPT !.cur = NoBuckets, !.prev = flushed.cur]
    /\ UNCHANGED <<last_update_times, cancelled>>
    /\ UNCHANGED <<statusVars, resyncVars, workerVars, decisionVars>>
    /\ UNCHANGED <<mrfVars, poolVars>>

\* One pass of the for loop over a bucket: the two tests, then, with
\* `update` set, save_resync_status; `saved` tells whether the save
\* succeeds.  On Ok the bucket's last_update is recorded
\* (status.last_update.unwrap() panics on None); on Err the error is logged
\* and nothing is recorded.  `update` is not cleared between buckets.
PersistScanBucket(saved) ==
    /\ ploop.pc = "scan"
    /\ ploop.todo # <<>>
    /\ LET bucket == Head(ploop.todo)
           status == status_map[bucket]
           update == UpdateFlag(ploop.update, status, last_update_times, bucket)
       IN  /\ IF update /\ saved
              THEN /\ durable' = save_resync_status(durable, bucket, status)
                   /\ last_update_times' =
                         [b \in (DOMAIN last_update_times) \cup {bucket} |->
                             IF b = bucket THEN status.last_update
                                           ELSE last_update_times[b]]
                   /\ flushed' = [flushed EXCEPT
                         !.cur = [b \in (DOMAIN flushed.cur) \cup {bucket} |->
                                    IF b = bucket THEN status ELSE flushed.cur[b]],
                         !.err = @ \ {bucket}]
                   /\ UNCHANGED save_failed
              ELSE /\ save_failed' = (save_failed \/ update)
                   /\ flushed' = [flushed EXCEPT !.err =
                         IF update THEN @ \cup {bucket} ELSE @ \ {bucket}]
                   /\ UNCHANGED <<durable, last_update_times>>
           /\ ploop' = [ploop EXCEPT
                 !.todo = Tail(ploop.todo),
                 !.update = update,
                 !.pc = IF update /\ saved /\ status.last_update = None
                        THEN "panicked" ELSE "scan"]
    /\ UNCHANGED <<status_map, pc, call, snap, clock, ncall, solo, cancelled>>
    /\ UNCHANGED <<statusVars, workerVars, decisionVars>>
    /\ UNCHANGED <<mrfVars, poolVars>>

\* The for loop is over: the read lock is dropped, interval.reset(), and
\* the loop is back in select!.
PersistScanEnd ==
    /\ ploop.pc = "scan"
    /\ ploop.todo = <<>>
    /\ ploop' = [ploop EXCEPT !.pc = "select", !.update = FALSE]
    /\ UNCHANGED <<last_update_times, cancelled, flushed>>
    /\ UNCHANGED <<statusVars, resyncVars, workerVars, decisionVars>>
    /\ UNCHANGED <<mrfVars, poolVars>>

\* select! takes the cancelled() branch: persist_to_disk returns.
PersistReturn ==
    /\ ploop.pc = "select"
    /\ cancelled
    /\ ploop' = [ploop EXCEPT !.pc = "returned"]
    /\ UNCHANGED <<last_update_times, cancelled, flushed>>
    /\ UNCHANGED <<statusVars, resyncVars, workerVars, decisionVars>>
    /\ UNCHANGED <<mrfVars, poolVars>>

\* cancel_token.cancel(), by whoever holds the token.
Cancel ==
    /\ ~cancelled
    /\ cancelled' = TRUE
    /\ UNCHANGED <<last_update_times, ploop, flushed>>
    /\ UNCHANGED <<statusVars, resyncVars, workerVars, decisionVars>>
    /\ UNCHANGED <<mrfVars, poolVars>>

\* persist_to_disk has been called on a new resyncer and is in select!.
InitPersist ==
    /\ rs = ReplicationState_new
    /\ nupdates = 0
    /\ ret = NoCall
    /\ ncalls = 0
    /\ DecisionsNew
    /\ PoolNew
    /\ status_map = NoBuckets
    /\ durable = NoBlobs
    /\ pc = [p \in Callers |-> "idle"]
    /\ call = [p \in Callers |-> NoOpts]
    /\ snap = [p \in Callers |-> BucketReplicationResyncStatus_new]
    /\ clock = 1
    /\ ncall = 0
    /\ solo = [p \in Callers |-> FALSE]
    /\ save_failed = FALSE
    /\ last_update_times = NoTimes
    /\ ploop = [LoopUnstarted EXCEPT !.pc = "select"]
    /\ cancelled = FALSE
    /\ flushed = NoFlushes
    /\ worker_slots = RESYNC_WORKER_COUNT
    /\ rcall = NoResyncCall
    /\ nresync = 0

NextPersist ==
    \/ \E status \in PersistStatuses, bucket \in PersistBuckets, arn \in PersistArns :
          \E t1 \in NowReads(clock) : \E t2 \in NowReads(t1) :
             MarkUpdate("p1", status, bucket, arn, "r1", t1, t2)
    \/ MarkSaveOk("p1")
    \/ MarkSaveErr("p1")
    \/ \E delta \in PersistDeltas, bucket \in PersistBuckets, arn \in PersistArns :
          \E t1 \in NowReads(clock) : \E t2 \in NowReads(t1) :
             IncStats(delta, bucket, arn, t1, t2)
    \/ \E order \in IterOrders(status_map) : PersistTick(order)
    \/ \E saved \in BOOLEAN : PersistScanBucket(saved)
    \/ PersistScanEnd
    \/ PersistReturn
    \/ Cancel

SpecPersist == InitPersist /\ [][NextPersist]_vars

-----------------------------------------------------------------------------
(* SpecFrame: mark_status, inc_stats and the persist loop over two buckets  *)
(* and two targets, to see what each of them leaves alone.  mark_status is  *)
(* called for t1 of either bucket, inc_stats for either target of b1, so    *)
(* that a call meets records of another target and of another bucket.       *)

FrameStatuses == {"ResyncStarted"}

FrameMarkArns == {"t1"}

FrameStatsBuckets == {"b1"}

NextFrame ==
    \/ \E status \in FrameStatuses, bucket \in PersistBuckets, arn \in FrameMarkArns :
          \E t1 \in NowReads(clock) : \E t2 \in NowReads(t1) :
             MarkUpdate("p1", status, bucket, arn, "r1", t1, t2)
    \/ MarkSaveOk("p1")
    \/ MarkSaveErr("p1")
    \/ \E delta \in PersistDeltas, bucket \in FrameStatsBuckets, arn \in ResyncArns :
          \E t1 \in NowReads(clock) : \E t2 \in NowReads(t1) :
             IncStats(delta, bucket, arn, t1, t2)
    \/ \E order \in IterOrders(status_map) : PersistTick(order)
    \/ \E saved \in BOOLEAN : PersistScanBucket(saved)
    \/ PersistScanEnd

SpecFrame == InitPersist /\ [][NextFrame]_vars

-----------------------------------------------------------------------------
(* SpecWorker: resync_bucket, its worker slots and the replication-config   *)
(* lookup.  resync_bucket takes &mut self, so one call runs at a time.      *)

\* resync_bucket calls started in one behaviour.
MaxResyncs == 11

\* What metadata_sys::get_replication_config(bucket) returns: Ok((config,
\* updated_at)), of which the caller keeps only config, or Err(err).
LookupOutcomes ==
    {[tag |-> "Ok", val |-> "cfg1"],
     [tag |-> "Err", val |-> "ConfigNotFound"],
     [tag |-> "Err", val |-> "BucketNotFound"],
     [tag |-> "Err", val |-> "Io"]}

\* Variant that turns every lookup error into Ok(None).
M_get_replication_config_AnyErrorNone(lookup) ==
    IF lookup.tag = "Ok"
    THEN [tag |-> "OkSome", val |-> lookup.val]
    ELSE [tag |-> "OkNone", val |-> ""]

\* get_replication_config, given the lookup's outcome.
get_replication_config(lookup) ==
    IF lookup.tag = "Ok"
    THEN [tag |-> "OkSome", val |-> lookup.val]
    ELSE IF lookup.val # "ConfigNotFound"
         THEN [tag |-> "Err", val |-> lookup.val]
         ELSE [tag |-> "OkNone", val |-> ""]

\* resync_bucket is called and suspends in select!.
ResyncBegin ==
    /\ rcall.pc \in {"idle", "returned", "panicked"}
    /\ nresync < MaxResyncs
    /\ rcall' = [pc |-> "acquire", lookup |-> NoResult, cfg |-> NoResult]
    /\ nresync' = nresync + 1
    /\ UNCHANGED worker_slots
    /\ UNCHANGED <<statusVars, resyncVars, loopVars, decisionVars>>
    /\ UNCHANGED <<mrfVars, poolVars>>

\* select! takes the cancelled() branch: resync_bucket returns.
ResyncCancelled ==
    /\ rcall.pc = "acquire"
    /\ cancelled
    /\ rcall' = [rcall EXCEPT !.pc = "returned"]
    /\ UNCHANGED <<worker_slots, nresync>>
    /\ UNCHANGED <<statusVars, resyncVars, loopVars, decisionVars>>
    /\ UNCHANGED <<mrfVars, poolVars>>

\* Variant whose recv() branch completes on an empty channel as well.
M_ResyncAcquire_WhenEmpty ==
    /\ rcall.pc = "acquire"
    /\ worker_slots' = IF worker_slots > 0 THEN worker_slots - 1 ELSE 0
    /\ rcall' = [rcall EXCEPT !.pc = "lookup"]
    /\ UNCHANGED nresync
    /\ UNCHANGED <<statusVars, resyncVars, loopVars, decisionVars>>
    /\ UNCHANGED <<mrfVars, poolVars>>

\* select! takes the worker_rx.recv() branch: one message leaves the
\* channel.  The macro has no `biased;`, so this branch can be taken with
\* the token cancelled.
ResyncAcquire ==
    /\ rcall.pc = "acquire"
    /\ worker_slots > 0
    /\ worker_slots' = worker_slots - 1
    /\ rcall' = [rcall EXCEPT !.pc = "lookup"]
    /\ UNCHANGED nresync
    /\ UNCHANGED <<statusVars, resyncVars, loopVars, decisionVars>>
    /\ UNCHANGED <<mrfVars, poolVars>>

\* get_replication_config returns: on Err the error is logged and
\* resync_bucket returns; on Ok the function reaches todo!() and panics.
\* Nothing is sent to worker_tx on either path.
ResyncLookup(lookup) ==
    /\ rcall.pc = "lookup"
    /\ LET cfg == get_replication_config(lookup)
       IN  rcall' = [pc |-> IF cfg.tag = "Err" THEN "returned" ELSE "panicked",
                     lookup |-> lookup,
                     cfg |-> cfg]
    /\ UNCHANGED <<worker_slots, nresync>>
    /\ UNCHANGED <<statusVars, resyncVars, loopVars, decisionVars>>
    /\ UNCHANGED <<mrfVars, poolVars>>

InitWorker ==
    /\ rs = ReplicationState_new
    /\ nupdates = 0
    /\ ret = NoCall
    /\ ncalls = 0
    /\ ResyncerNew
    /\ DecisionsNew
    /\ PoolNew

NextWorker ==
    \/ ResyncBegin
    \/ ResyncCancelled
    \/ ResyncAcquire
    \/ \E lookup \in LookupOutcomes : ResyncLookup(lookup)
    \/ Cancel

SpecWorker == InitWorker /\ [][NextWorker]_vars

-----------------------------------------------------------------------------
(* SpecBlob: resync.bin is written by mark_status and read back.  The store *)
(* may hold, from before, a blob of bucket b1 written under another format  *)
(* or version id.                                                           *)

\* The u16 values found in the header of a blob already in the store.
HeaderWords == {1, 2, 257}

BlobStatuses == {"ResyncStarted", "ResyncCompleted"}

\* inc_stats counts one failed object, whose count and size differ.
BlobDeltas ==
    {[TargetReplicationResyncStatus_new EXCEPT
         !.object = "o1", !.failed_count = 1, !.failed_size = 2]}

\* The blobs the store may hold for b1 when the resyncer is created.
OldBlobs ==
    {[format |-> write_u16(f), version |-> write_u16(v),
      body |-> marshal_msg(BucketReplicationResyncStatus_new)] :
        f \in HeaderWords, v \in HeaderWords}

InitBlob ==
    /\ rs = ReplicationState_new
    /\ nupdates = 0
    /\ ret = NoCall
    /\ ncalls = 0
    /\ DecisionsNew
    /\ PoolNew
    /\ status_map = NoBuckets
    /\ durable \in {NoBlobs} \cup {[b \in {"b1"} |-> blob] : blob \in OldBlobs}
    /\ pc = [p \in Callers |-> "idle"]
    /\ call = [p \in Callers |-> NoOpts]
    /\ snap = [p \in Callers |-> BucketReplicationResyncStatus_new]
    /\ clock = 1
    /\ ncall = 0
    /\ solo = [p \in Callers |-> FALSE]
    /\ save_failed = FALSE
    /\ last_update_times = NoTimes
    /\ ploop = LoopUnstarted
    /\ cancelled = FALSE
    /\ flushed = NoFlushes
    /\ worker_slots = RESYNC_WORKER_COUNT
    /\ rcall = NoResyncCall
    /\ nresync = 0

\* The blob of a bucket is read back.
LoadResyncStatus(bucket) ==
    /\ bucket \in DOMAIN durable
    /\ ncalls < MaxRecompute
    /\ ret' = [fn |-> "load_resync_status",
               arg |-> durable[bucket],
               value |-> load_resync_status(durable[bucket])]
    /\ ncalls' = ncalls + 1
    /\ UNCHANGED <<rs, nupdates>>
    /\ UNCHANGED <<resyncVars, loopVars, workerVars, decisionVars>>
    /\ UNCHANGED <<mrfVars, poolVars>>

NextBlob ==
    \/ \E status \in BlobStatuses, bucket \in Buckets, arn \in ResyncArns :
          \E t1 \in NowReads(clock) : \E t2 \in NowReads(t1) :
             MarkUpdate("p1", status, bucket, arn, "r1", t1, t2)
    \/ MarkSaveOk("p1")
    \/ MarkSaveErr("p1")
    \/ \E delta \in BlobDeltas, bucket \in Buckets, arn \in ResyncArns :
          \E t1 \in NowReads(clock) : \E t2 \in NowReads(t1) :
             IncStats(delta, bucket, arn, t1, t2)
    \/ \E bucket \in Buckets : LoadResyncStatus(bucket)

SpecBlob == InitBlob /\ [][NextBlob]_vars

-----------------------------------------------------------------------------
(* SpecDecision: ReplicateDecision and ResyncDecision.  Decisions are set   *)
(* target by target and the checks are applied to the maps.                 *)

DecisionArns == {"arn1", "arn2"}

\* ReplicateTargetDecision::new(arn, replicate, sync)
ReplicateTargetDecision_new(arn, replicate, sync) ==
    [replicate |-> replicate, synchronous |-> sync, arn |-> arn, id |-> ""]

\* ReplicateDecision::set: targets_map.insert(target.arn.clone(), target)
ReplicateDecision_set(targets_map, target) == MapInsert(targets_map, target.arn, target)

RECURSIVE ReplicateAnyLoop(_, _, _)

\* Variant that looks at the first entry visited only.
M_ReplicateAnyLoop_FirstOnly(targets_map, order, i) ==
    IF i > Len(order)
    THEN FALSE
    ELSE targets_map[order[i]].replicate

\* targets_map.values().any(|t| t.replicate): the entries are visited in
\* the map's order until one satisfies the closure.
ReplicateAnyLoop(targets_map, order, i) ==
    IF i > Len(order)
    THEN FALSE
    ELSE IF targets_map[order[i]].replicate
         THEN TRUE
         ELSE ReplicateAnyLoop(targets_map, order, i + 1)

\* ReplicateDecision::replicate_any
replicate_any(targets_map, order) == ReplicateAnyLoop(targets_map, order, 1)

RECURSIVE SynchronousAnyLoop(_, _, _)

\* targets_map.values().any(|t| t.synchronous)
SynchronousAnyLoop(targets_map, order, i) ==
    IF i > Len(order)
    THEN FALSE
    ELSE IF targets_map[order[i]].synchronous
         THEN TRUE
         ELSE SynchronousAnyLoop(targets_map, order, i + 1)

\* ReplicateDecision::is_synchronous
is_synchronous(targets_map, order) == SynchronousAnyLoop(targets_map, order, 1)

\* ResyncDecision::must_resync: targets.values().any(|v| v.replicate); the
\* closure reads the same field as replicate_any's.
must_resync(targets, order) == ReplicateAnyLoop(targets, order, 1)

\* ResyncDecision::must_resync_target:
\* targets.get(tgt_arn).map(|v| v.replicate).unwrap_or(false)
must_resync_target(targets, tgt_arn) ==
    IF tgt_arn \in DOMAIN targets THEN targets[tgt_arn].replicate ELSE FALSE

\* rd.set(ReplicateTargetDecision::new(arn, replicate, sync))
DecisionSet(arn, replicate, sync) ==
    /\ nupdates < MaxUpdates
    /\ rd' = ReplicateDecision_set(rd, ReplicateTargetDecision_new(arn, replicate, sync))
    /\ dret' = [fn |-> "set", arg |-> arn, value |-> replicate]
    /\ nupdates' = nupdates + 1
    /\ UNCHANGED <<rs, ret, ncalls, rsd>>
    /\ UNCHANGED <<resyncVars, loopVars, workerVars>>
    /\ UNCHANGED <<mrfVars, poolVars>>

\* rsd.targets.insert(arn, ResyncTargetDecision { replicate, .. }): the
\* map is a public field, filled by whoever builds the decision.
ResyncTargetInsert(arn, replicate) ==
    /\ nupdates < MaxUpdates
    /\ rsd' = MapInsert(rsd, arn,
                 [replicate |-> replicate, reset_id |-> "", reset_before_date |-> None])
    /\ dret' = [fn |-> "insert", arg |-> arn, value |-> replicate]
    /\ nupdates' = nupdates + 1
    /\ UNCHANGED <<rs, ret, ncalls, rd>>
    /\ UNCHANGED <<resyncVars, loopVars, workerVars>>
    /\ UNCHANGED <<mrfVars, poolVars>>

CallReplicateAny ==
    /\ \E order \in IterOrders(rd) :
          dret' = [fn |-> "replicate_any", arg |-> "", value |-> replicate_any(rd, order)]
    /\ UNCHANGED <<rd, rsd>>
    /\ UNCHANGED <<statusVars, resyncVars, loopVars, workerVars>>
    /\ UNCHANGED <<mrfVars, poolVars>>

CallIsSynchronous ==
    /\ \E order \in IterOrders(rd) :
          dret' = [fn |-> "is_synchronous", arg |-> "", value |-> is_synchronous(rd, order)]
    /\ UNCHANGED <<rd, rsd>>
    /\ UNCHANGED <<statusVars, resyncVars, loopVars, workerVars>>
    /\ UNCHANGED <<mrfVars, poolVars>>

CallMustResync ==
    /\ \E order \in IterOrders(rsd) :
          dret' = [fn |-> "must_resync", arg |-> "", value |-> must_resync(rsd, order)]
    /\ UNCHANGED <<rd, rsd>>
    /\ UNCHANGED <<statusVars, resyncVars, loopVars, workerVars>>
    /\ UNCHANGED <<mrfVars, poolVars>>

CallMustResyncTarget(arn) ==
    /\ dret' = [fn |-> "must_resync_target", arg |-> arn,
                value |-> must_resync_target(rsd, arn)]
    /\ UNCHANGED <<rd, rsd>>
    /\ UNCHANGED <<statusVars, resyncVars, loopVars, workerVars>>
    /\ UNCHANGED <<mrfVars, poolVars>>

InitDecision ==
    /\ rs = ReplicationState_new
    /\ nupdates = 0
    /\ ret = NoCall
    /\ ncalls = 0
    /\ ResyncerNew
    /\ DecisionsNew
    /\ PoolNew

NextDecision ==
    \/ \E arn \in DecisionArns, replicate \in BOOLEAN, sync \in BOOLEAN :
          DecisionSet(arn, replicate, sync)
    \/ \E arn \in DecisionArns, replicate \in BOOLEAN : ResyncTargetInsert(arn, replicate)
    \/ CallReplicateAny
    \/ CallIsSynchronous
    \/ CallMustResync
    \/ \E arn \in DecisionArns : CallMustResyncTarget(arn)

SpecDecision == InitDecision /\ [][NextDecision]_vars

-----------------------------------------------------------------------------
(* SpecMrf: operations fail, are reduced to MRF entries and recorded in the *)
(* ledger; the ledger's entries are redriven and fail again or succeed.     *)

\* Failures of one operation in one behaviour.
MaxFailures == 3

\* Variant that copies the bucket into the object field.
M_to_mrf_entry_BucketAsObject(op) ==
    [bucket |-> op.bucket,
     object |-> op.bucket,
     version_id |-> op.version_id,
     retry_count |-> op.retry_count,
     size |-> op.size]

\* ReplicateObjectInfo::to_mrf_entry
to_mrf_entry(op) ==
    [bucket |-> op.bucket,
     object |-> op.name,
     version_id |-> op.version_id,
     retry_count |-> op.retry_count,
     size |-> op.size]

\* The positions of the ledger that hold the key (bucket, object).
LedgerPositions(l, bucket, object) ==
    {i \in 1..Len(l) : l[i].bucket = bucket /\ l[i].object = object}

\* record(entry): for a (bucket, object) the ledger already holds, the
\* entry's retry_count is incremented; otherwise the entry is appended,
\* this failure counted.
record(l, entry) ==
    IF LedgerPositions(l, entry.bucket, entry.object) # {}
    THEN [i \in 1..Len(l) |->
             IF i \in LedgerPositions(l, entry.bucket, entry.object)
             THEN [l[i] EXCEPT !.retry_count = @ + 1]
             ELSE l[i]]
    ELSE Append(l, [entry EXCEPT !.retry_count = @ + 1])

\* The failure counts after one more failure under the key (bucket, object).
FailedOnce(bucket, object) ==
    [op \in PoolOps |->
        IF op.bucket = bucket /\ op.name = object THEN fails[op] + 1 ELSE fails[op]]

\* A submitted operation is executed and fails: the worker reduces it to
\* an MRF entry and records it.
OperationFails(op) ==
    /\ fails[op] < MaxFailures
    /\ ledger' = record(ledger, to_mrf_entry(op))
    /\ fails' = [fails EXCEPT ![op] = @ + 1]
    /\ UNCHANGED <<statusVars, resyncVars, loopVars, workerVars, decisionVars>>
    /\ UNCHANGED poolVars

\* The entry at position i is redriven as a fresh operation (version_id
\* and size recomputed), which fails again.
RedriveFails(i) ==
    /\ i \in 1..Len(ledger)
    /\ \A op \in PoolOps :
          (op.bucket = ledger[i].bucket /\ op.name = ledger[i].object)
             => fails[op] < MaxFailures
    /\ LET op == [bucket |-> ledger[i].bucket, name |-> ledger[i].object,
                  version_id |-> "v1", size |-> 1,
                  retry_count |-> ledger[i].retry_count]
       IN  /\ ledger' = record(ledger, to_mrf_entry(op))
           /\ fails' = FailedOnce(op.bucket, op.name)
    /\ UNCHANGED <<statusVars, resyncVars, loopVars, workerVars, decisionVars>>
    /\ UNCHANGED poolVars

\* The entry at position i is redriven and the operation succeeds: the
\* entry is destroyed.
RedriveSucceeds(i) ==
    /\ i \in 1..Len(ledger)
    /\ ledger' = [j \in 1..(Len(ledger) - 1) |->
                     IF j < i THEN ledger[j] ELSE ledger[j + 1]]
    /\ fails' = [op \in PoolOps |->
                    IF op.bucket = ledger[i].bucket /\ op.name = ledger[i].object
                    THEN 0 ELSE fails[op]]
    /\ UNCHANGED <<statusVars, resyncVars, loopVars, workerVars, decisionVars>>
    /\ UNCHANGED poolVars

InitMrf ==
    /\ rs = ReplicationState_new
    /\ nupdates = 0
    /\ ret = NoCall
    /\ ncalls = 0
    /\ ResyncerNew
    /\ DecisionsNew
    /\ PoolNew

NextMrf ==
    \/ \E op \in PoolOps : OperationFails(op)
    \/ \E i \in 1..Len(ledger) : RedriveFails(i)
    \/ \E i \in 1..Len(ledger) : RedriveSucceeds(i)

SpecMrf == InitMrf /\ [][NextMrf]_vars

-----------------------------------------------------------------------------
(* SpecPool: submit, resize and shutdown of the worker pool.  The queue set *)
(* and the worker count are guarded by one lock, so each is one step.       *)

\* ReplicationPool::max_workers, the capacity the pool is built with.
PoolMaxWorkers == 2

\* The operations held in a sequence of queues.
RECURSIVE Queued(_)

Queued(qs) ==
    IF qs = <<>>
    THEN {}
    ELSE {Head(qs)[i] : i \in 1..Len(Head(qs))} \cup Queued(Tail(qs))

\* submit(op): the operation is appended to the queue of the worker k the
\* key of (bucket, object), or round-robin, selects; it never blocks.
Submit(op, k) ==
    /\ op \notin submitted
    /\ k \in 1..Len(queues)
    /\ queues' = [queues EXCEPT ![k] = Append(@, op)]
    /\ submitted' = submitted \cup {op}
    /\ UNCHANGED <<active_workers, executed, moved, cancelled>>
    /\ UNCHANGED <<statusVars, resyncVars, workerVars, decisionVars, mrfVars>>
    /\ UNCHANGED <<last_update_times, ploop, flushed>>

\* resize to one worker more: a worker with an empty queue is added, up to
\* max_workers.
AddWorker ==
    /\ ~cancelled
    /\ Len(queues) < PoolMaxWorkers
    /\ active_workers < PoolMaxWorkers
    /\ queues' = Append(queues, <<>>)
    /\ active_workers' = active_workers + 1
    /\ UNCHANGED <<submitted, executed, moved, cancelled>>
    /\ UNCHANGED <<statusVars, resyncVars, workerVars, decisionVars, mrfVars>>
    /\ UNCHANGED <<last_update_times, ploop, flushed>>

\* Variant that removes the last worker together with what its queue holds.
M_RemoveWorker_DropQueue(k) ==
    /\ ~cancelled
    /\ Len(queues) > 0
    /\ queues' = SubSeq(queues, 1, Len(queues) - 1)
    /\ active_workers' = active_workers - 1
    /\ UNCHANGED <<submitted, executed, moved, cancelled>>
    /\ UNCHANGED <<statusVars, resyncVars, workerVars, decisionVars, mrfVars>>
    /\ UNCHANGED <<last_update_times, ploop, flushed>>

\* resize to one worker fewer: the last worker is removed once its queue
\* is empty (drained), or after its pending operations have been appended
\* to the queue of a remaining worker k (redistributed).
RemoveWorker(k) ==
    /\ ~cancelled
    /\ Len(queues) > 0
    /\ LET last == queues[Len(queues)]
           rest == SubSeq(queues, 1, Len(queues) - 1)
       IN  IF last = <<>>
           THEN /\ queues' = rest
                /\ UNCHANGED moved
           ELSE /\ k \in 1..Len(rest)
                /\ queues' = [rest EXCEPT ![k] = @ \o last]
                /\ moved' = moved \cup {last[i] : i \in 1..Len(last)}
    /\ active_workers' = active_workers - 1
    /\ UNCHANGED <<submitted, executed, cancelled>>
    /\ UNCHANGED <<statusVars, resyncVars, workerVars, decisionVars, mrfVars>>
    /\ UNCHANGED <<last_update_times, ploop, flushed>>

\* Worker k takes the operation at the head of its queue and executes it.
\* After shutdown the workers pull no new work.
WorkerExecute(k) ==
    /\ ~cancelled
    /\ k \in 1..Len(queues)
    /\ queues[k] # <<>>
    /\ queues' = [queues EXCEPT ![k] = Tail(@)]
    /\ executed' = executed \cup {Head(queues[k])}
    /\ UNCHANGED <<active_workers, submitted, moved, cancelled>>
    /\ UNCHANGED <<statusVars, resyncVars, workerVars, decisionVars, mrfVars>>
    /\ UNCHANGED <<last_update_times, ploop, flushed>>

\* shutdown(): the cancellation signal is raised.
Shutdown ==
    /\ ~cancelled
    /\ cancelled' = TRUE
    /\ UNCHANGED poolVars
    /\ UNCHANGED <<statusVars, resyncVars, workerVars, decisionVars, mrfVars>>
    /\ UNCHANGED <<last_update_times, ploop, flushed>>

\* After shutdown a worker finishes what it is doing and exits.
WorkerExit ==
    /\ cancelled
    /\ active_workers > 0
    /\ active_workers' = active_workers - 1
    /\ UNCHANGED <<queues, submitted, executed, moved, cancelled>>
    /\ UNCHANGED <<statusVars, resyncVars, workerVars, decisionVars, mrfVars>>
    /\ UNCHANGED <<last_update_times, ploop, flushed>>

InitPool ==
    /\ rs = ReplicationState_new
    /\ nupdates = 0
    /\ ret = NoCall
    /\ ncalls = 0
    /\ ResyncerNew
    /\ DecisionsNew
    /\ PoolNew

NextPool ==
    \/ \E op \in PoolOps, k \in 1..PoolMaxWorkers : Submit(op, k)
    \/ AddWorker
    \/ \E k \in 1..PoolMaxWorkers : RemoveWorker(k)
    \/ \E k \in 1..PoolMaxWorkers : WorkerExecute(k)
    \/ Shutdown
    \/ WorkerExit

SpecPool == InitPool /\ [][NextPool]_vars

-----------------------------------------------------------------------------
(* Claims C1..C5: the status model *)

MapValues(m) == {m[a] : a \in DOMAIN m}

\* The composite rule as the specification states it, for a map m with the
\* statuses `failed` and `done`.
RuleHolds(m, c, failed, done) ==
    /\ (c = failed) <=> (failed \in MapValues(m))
    /\ (c = done) <=> (DOMAIN m # {} /\ \A v \in MapValues(m) : v = done)
    /\ (c = "Pending") <=>
          /\ DOMAIN m # {}
          /\ failed \notin MapValues(m)
          /\ \E v \in MapValues(m) : v # done
    /\ (c = "Empty") <=> (DOMAIN m = {})

\* The status the rule derives from a map.
RuleStatus(m, failed, done) ==
    IF DOMAIN m = {} THEN "Empty"
    ELSE IF failed \in MapValues(m) THEN failed
    ELSE IF \A v \in MapValues(m) : v = done THEN done
    ELSE "Pending"

\* C1: for every target map, whatever order its values are visited in,
\* get_composite_replication_status is Failed iff the map holds a Failed
\* value, Completed iff it is non-empty and every value is Completed,
\* Pending otherwise when non-empty, and Empty iff the map is empty; a
\* value returned by a call obeys the rule too.  The purge function obeys
\* the same rule with Failed and Complete.  Hence a map with a Failed
\* target is Failed whatever the other targets are.
C1_CompositeRule ==
    /\ \A o \in IterOrders(rs.targets) :
          RuleHolds(rs.targets, get_composite_replication_status(rs.targets, o),
                    "Failed", "Completed")
    /\ \A o \in IterOrders(rs.purge_targets) :
          RuleHolds(rs.purge_targets,
                    get_composite_version_purge_status(rs.purge_targets, o),
                    "Failed", "Complete")
    /\ ret.fn = "get_composite_replication_status" =>
          RuleHolds(rs.targets, ret.value, "Failed", "Completed")
    /\ ret.fn = "get_composite_version_purge_status" =>
          RuleHolds(rs.purge_targets, ret.value, "Failed", "Complete")

\* C1 witness: a Completed, a Pending and a Failed target have been added
\* and the call returned Failed.
C1_Witness ==
    /\ ret.fn = "get_composite_replication_status"
    /\ ret.value = "Failed"
    /\ Cardinality(DOMAIN rs.targets) = 3
    /\ {"Completed", "Pending", "Failed"} \subseteq MapValues(rs.targets)

\* States in which composite_replication_status takes the status from the
\* internal string: the string decodes to Pending, Completed, Failed or
\* Replica.
ExplicitReplStatus(self) ==
    self.replication_status_internal \in {"PENDING", "COMPLETED", "FAILED", "REPLICA"}

ExplicitPurgeStatus(self) ==
    self.version_purge_status_internal \in {"PENDING", "COMPLETE", "FAILED"}

\* C2 (as claimed): whenever replication_status_internal is not an explicit
\* status string (the empty string included) and the state carries no
\* replica status and no replica timestamp, composite_replication_status
\* returns the status the rule derives from targets; and
\* composite_version_purge_status returns the status derived from
\* purge_targets whenever version_purge_status_internal is not explicit.
C2_DerivedWhenNotExplicit ==
    /\ (/\ ret.fn = "composite_replication_status"
        /\ ~ExplicitReplStatus(rs)
        /\ rs.replica_status = "Empty"
        /\ rs.replica_timestamp = None)
          => ret.value = RuleStatus(rs.targets, "Failed", "Completed")
    /\ (/\ ret.fn = "composite_version_purge_status"
        /\ ~ExplicitPurgeStatus(rs))
          => ret.value = RuleStatus(rs.purge_targets, "Failed", "Complete")

\* C3: a non-empty replication_status_internal that decodes to Pending,
\* Completed, Failed or Replica is returned verbatim by
\* composite_replication_status, whatever targets, replica_status and the
\* timestamps hold; version_purge_status_internal that decodes to Pending,
\* Complete or Failed is returned verbatim by
\* composite_version_purge_status, whatever purge_targets holds.
C3_ExplicitVerbatim ==
    LET repl == [s \in {"PENDING", "COMPLETED", "FAILED", "REPLICA"} |->
                   CASE s = "PENDING" -> "Pending"
                     [] s = "COMPLETED" -> "Completed"
                     [] s = "FAILED" -> "Failed"
                     [] s = "REPLICA" -> "Replica"]
        purge == [s \in {"PENDING", "COMPLETE", "FAILED"} |->
                   CASE s = "PENDING" -> "Pending"
                     [] s = "COMPLETE" -> "Complete"
                     [] s = "FAILED" -> "Failed"]
    IN  /\ ExplicitReplStatus(rs) =>
              /\ \A o \in IterOrders(rs.targets) :
                    composite_replication_status(rs, o)
                       = repl[rs.replication_status_internal]
              /\ ret.fn = "composite_replication_status" =>
                    ret.value = repl[rs.replication_status_internal]
        /\ ExplicitPurgeStatus(rs) =>
              /\ \A o \in IterOrders(rs.purge_targets) :
                    composite_version_purge_status(rs, o)
                       = purge[rs.version_purge_status_internal]
              /\ ret.fn = "composite_version_purge_status" =>
                    ret.value = purge[rs.version_purge_status_internal]

\* C3 witness: the internal string says COMPLETED while a target is Failed
\* and a later replica timestamp with a Replica status is present; the
\* call returned Completed.
C3_Witness ==
    /\ ret.fn = "composite_replication_status"
    /\ rs.replication_status_internal = "COMPLETED"
    /\ "Failed" \in MapValues(rs.targets)
    /\ rs.replica_status = "Replica"
    /\ rs.replication_timestamp # None
    /\ rs.replica_timestamp > rs.replication_timestamp
    /\ ret.value = "Completed"

\* The recency tie-break: both timestamps present and the replica one
\* strictly later.
ReplicaIsNewer(self) ==
    /\ self.replica_timestamp # None
    /\ self.replication_timestamp # None
    /\ self.replica_timestamp > self.replication_timestamp

OrderIndependent ==
    /\ \A o1, o2 \in IterOrders(rs.targets) :
          get_composite_replication_status(rs.targets, o1)
             = get_composite_replication_status(rs.targets, o2)
    /\ \A o1, o2 \in IterOrders(rs.purge_targets) :
          get_composite_version_purge_status(rs.purge_targets, o1)
             = get_composite_version_purge_status(rs.purge_targets, o2)
    /\ ret.fn = "get_composite_replication_status" =>
          \A o \in IterOrders(rs.targets) :
             ret.value = get_composite_replication_status(rs.targets, o)
    /\ ret.fn = "get_composite_version_purge_status" =>
          \A o \in IterOrders(rs.purge_targets) :
             ret.value = get_composite_version_purge_status(rs.purge_targets, o)

\* A step that computes a composite leaves the ReplicationState as it was,
\* and computing the same composite again returns the same value.
Recompute ==
    ncalls' > ncalls =>
       /\ rs' = rs
       /\ (ncalls > 0 /\ ret'.fn = ret.fn) => ret'.value = ret.value

\* C5: the composite statuses depend only on the final status of each
\* target, not on the order in which the updates arrived or in which the
\* map is visited, and computing a composite changes nothing and can be
\* repeated with the same result.
C5_OrderIndependentPure == []OrderIndependent /\ [][Recompute]_vars

\* C5 witness: a Pending and a Failed purge status have arrived for two
\* targets and the purge composite has been computed twice.
C5_Witness ==
    /\ ret.fn = "get_composite_version_purge_status"
    /\ ncalls = 2
    /\ {"Pending", "Failed"} \subseteq MapValues(rs.purge_targets)
    /\ "Completed" \in MapValues(rs.targets)

-----------------------------------------------------------------------------
(* Claims C6..C10: mark_status and inc_stats *)

\* The record of (bucket, arn) in a status map; an absent record is the
\* default one (NoResync, counters 0).
TargetOf(sm, bucket, arn) ==
    IF bucket \in DOMAIN sm /\ arn \in DOMAIN sm[bucket].targets_map
    THEN sm[bucket].targets_map[arn]
    ELSE TargetReplicationResyncStatus_new

\* The status decoded from the blob stored for a bucket.
Stored(bucket) == unmarshal_msg(durable[bucket].body)

\* C6: when a mark_status call that ran with no other call beside it
\* returns Ok, the blob stored for its bucket decodes to the bucket's
\* in-memory status of that moment (every target, with the counters
\* inc_stats has accumulated), the record of its target carries the status
\* just set, and last_update is stamped on the target and on the bucket.
C6_MarkStatusFlushes ==
    [][\A p \in Callers :
          (pc[p] = "save" /\ pc'[p] = "ok" /\ solo[p]) =>
             LET b == call[p].bucket
                 arn == call[p].arn
             IN  /\ b \in DOMAIN durable'
                 /\ b \in DOMAIN status_map'
                 /\ durable'[b].format = <<1, 0>>
                 /\ durable'[b].version = <<1, 0>>
                 /\ unmarshal_msg(durable'[b].body) = status_map'[b]
                 /\ arn \in DOMAIN status_map'[b].targets_map
                 /\ status_map'[b].targets_map[arn].resync_status = call[p].status
                 /\ status_map'[b].targets_map[arn].last_update # None
                 /\ status_map'[b].last_update # None]_vars

\* C6 witness: a call running alone has just returned Ok; the stored blob
\* shows t1 Completed and holds t2 with the counts inc_stats added.
C6_Witness ==
    /\ pc["p1"] = "ok"
    /\ solo["p1"]
    /\ "b1" \in DOMAIN durable
    /\ DOMAIN Stored("b1").targets_map = {"t1", "t2"}
    /\ Stored("b1").targets_map["t1"].resync_status = "ResyncCompleted"
    /\ Stored("b1").targets_map["t2"].replicated_count = 1
    /\ Stored("b1") = status_map["b1"]

\* C7 (as claimed): once every mark_status call has returned Ok (none in
\* flight, no write failed), the blob stored for a bucket holds for every
\* target the resync_status the in-memory map holds; a target the blob
\* does not hold is one inc_stats created, still NoResync.
C7_NoLostTransition ==
    ((\A p \in Callers : pc[p] # "save") /\ ~save_failed) =>
       \A b \in DOMAIN durable :
          \A arn \in DOMAIN status_map[b].targets_map :
             IF arn \in DOMAIN Stored(b).targets_map
             THEN Stored(b).targets_map[arn].resync_status
                     = status_map[b].targets_map[arn].resync_status
             ELSE status_map[b].targets_map[arn].resync_status = "NoResync"

\* The moves of the resync state machine.
Successor(old, new) ==
    \/ old = "NoResync" /\ new = "ResyncPending"
    \/ old = "ResyncPending" /\ new = "ResyncStarted"
    \/ old = "ResyncStarted"
          /\ new \in {"ResyncCompleted", "ResyncFailed", "ResyncCanceled"}

TerminalStatus == {"ResyncCompleted", "ResyncFailed", "ResyncCanceled"}

\* C8 (as claimed): in every step the in-memory resync_status of a
\* (bucket, target) pair stays as it is or moves to a successor along
\* NoResync -> ResyncPending -> ResyncStarted -> {ResyncCompleted,
\* ResyncFailed, ResyncCanceled}.
C8_MonotonicTransitions ==
    [][\A b \in Buckets, arn \in ResyncArns :
          LET old == TargetOf(status_map, b, arn).resync_status
              new == TargetOf(status_map', b, arn).resync_status
          IN  old = new \/ Successor(old, new)]_vars

\* C9 (as claimed): no step lowers replicated_count, replicated_size,
\* failed_count or failed_size of a (bucket, target) record whose
\* resync_id stays the same.
C9_CountersMonotone ==
    [][\A b \in Buckets, arn \in ResyncArns :
          LET old == TargetOf(status_map, b, arn)
              new == TargetOf(status_map', b, arn)
          IN  old.resync_id = new.resync_id =>
                 /\ new.replicated_count >= old.replicated_count
                 /\ new.replicated_size >= old.replicated_size
                 /\ new.failed_count >= old.failed_count
                 /\ new.failed_size >= old.failed_size]_vars

\* C10 (as claimed): when mark_status begins a resync (ResyncPending or
\* ResyncStarted) with a new resync_id on a pair whose record is in a
\* terminal state, the record's resync_id becomes the id passed and its
\* four counters are 0.
C10_FreshLifecycle ==
    [][\A p \in Callers :
          (pc[p] # "save" /\ pc'[p] = "save") =>
             LET old == TargetOf(status_map, call'[p].bucket, call'[p].arn)
                 new == TargetOf(status_map', call'[p].bucket, call'[p].arn)
             IN  (/\ old.resync_status \in TerminalStatus
                  /\ call'[p].status \in {"ResyncPending", "ResyncStarted"})
                    => /\ new.resync_id \in ResyncIds
                       /\ new.resync_id # old.resync_id
                       /\ new.replicated_count = 0
                       /\ new.replicated_size = 0
                       /\ new.failed_count = 0
                       /\ new.failed_size = 0]_vars

-----------------------------------------------------------------------------
(* Claims C11..C20: inc_stats, the persist loop, the worker slots, the      *)
(* durable blob and the decision maps                                       *)

\* A step of inc_stats: a call is counted and no mark_status caller moves.
IncStatsStep == ncall' = ncall + 1 /\ pc' = pc

\* What inc_stats(delta, {b, arn}) leaves behind, as the claim states it.
IncStatsEffect(delta, b, arn) ==
    LET old == TargetOf(status_map, b, arn)
        new == TargetOf(status_map', b, arn)
    IN  /\ b \in DOMAIN status_map'
        /\ arn \in DOMAIN status_map'[b].targets_map
        /\ new.replicated_count = old.replicated_count + delta.replicated_count
        /\ new.replicated_size = old.replicated_size + delta.replicated_size
        /\ new.failed_count = old.failed_count + delta.failed_count
        /\ new.failed_size = old.failed_size + delta.failed_size
        /\ new.last_update # None
        /\ new.last_update > old.last_update
        /\ new.resync_status = old.resync_status
        /\ new.resync_id = old.resync_id
        /\ new.start_time = old.start_time
        /\ \A b2 \in Buckets, a2 \in ResyncArns :
              (b2 # b \/ a2 # arn) =>
                 /\ TargetOf(status_map', b2, a2) = TargetOf(status_map, b2, a2)
                 /\ (b2 \in DOMAIN status_map /\ a2 \in DOMAIN status_map[b2].targets_map)
                       <=> (b2 \in DOMAIN status_map' /\ a2 \in DOMAIN status_map'[b2].targets_map)

\* C11: inc_stats adds the four counters of delta to the (bucket, arn)
\* record, creating the bucket and the target when absent, stamps
\* last_update, and writes nothing durable: no blob changes, the record's
\* resync_status stays and every other target's record stays.
C11_IncStatsFrame ==
    [][IncStatsStep =>
          /\ durable' = durable
          /\ \E delta \in Deltas, b \in Buckets, arn \in ResyncArns :
                IncStatsEffect(delta, b, arn)]_vars

\* C11 witness: t1 was marked ResyncStarted and flushed, t2 was marked, and
\* inc_stats has then counted one object on t1: memory shows the count,
\* the blob still shows 0.
C11_Witness ==
    /\ "b1" \in DOMAIN durable
    /\ ncall = 3
    /\ DOMAIN status_map["b1"].targets_map = {"t1", "t2"}
    /\ status_map["b1"].targets_map["t1"].resync_status = "ResyncStarted"
    /\ status_map["b1"].targets_map["t1"].replicated_count = 1
    /\ status_map["b1"].targets_map["t1"].object = "o1"
    /\ Stored("b1").targets_map["t1"].replicated_count = 0
    /\ Stored("b1").targets_map["t1"].resync_status = "ResyncStarted"

\* The persist loop writes the blob of bucket b in this step.
PersistWrote(b) ==
    /\ ploop.pc = "scan"
    /\ b \notin DOMAIN flushed.cur
    /\ b \in DOMAIN flushed'.cur

\* C12 (as claimed): the persist loop writes a bucket's blob only if the
\* bucket's last_update is later than the time recorded at the bucket's
\* last successful flush, whatever the other buckets of the tick are.
C12_PerBucketDirtyCheck ==
    [][\A b \in PersistBuckets :
          PersistWrote(b) =>
             /\ status_map[b].last_update # None
             /\ status_map[b].last_update > LastFlushTime(last_update_times, b)]_vars

\* C13 (as claimed): a bucket the tick before wrote successfully, and that
\* no mark_status or inc_stats has touched since, is not written again by
\* this tick.  Every update stamps a later last_update, so an untouched
\* bucket is one whose status is still the one written.
C13_IdempotentTicks ==
    [][\A b \in PersistBuckets :
          PersistWrote(b) =>
             ~(b \in DOMAIN flushed.prev /\ flushed.prev[b] = status_map[b])]_vars

\* C14 (as claimed): with the token cancelled and the loop suspended in
\* select!, the loop's next step is to return, not to start a tick; and a
\* scan in progress runs to its end whether or not the token is cancelled.
C14_CancelPriority ==
    [][/\ (cancelled /\ ploop.pc = "select") => ploop'.pc \in {"select", "returned"}
       /\ (cancelled /\ ploop.pc = "select") => durable' = durable \/ pc' # pc
       /\ ploop.pc = "scan" => ploop'.pc \in {"scan", "select", "panicked"}]_vars

\* resync_bucket calls that have taken a slot and have not ended.
RunningResyncs == IF rcall.pc = "lookup" THEN 1 ELSE 0

\* C15: the resyncs past slot acquisition and not yet ended never exceed
\* RESYNC_WORKER_COUNT (10), together with the free slots they never
\* exceed it either, and a call passes acquisition only by taking exactly
\* one free slot out of the channel.
C15_BoundedAdmission ==
    /\ [](/\ worker_slots \in 0..RESYNC_WORKER_COUNT
          /\ RunningResyncs <= RESYNC_WORKER_COUNT
          /\ RunningResyncs + worker_slots <= RESYNC_WORKER_COUNT)
    /\ [][(rcall.pc = "acquire" /\ rcall'.pc = "lookup") =>
             (worker_slots > 0 /\ worker_slots' = worker_slots - 1)]_vars

\* C15 witness: ten calls have taken the ten slots and the eleventh is
\* suspended on the empty channel.
C15_Witness ==
    /\ worker_slots = 0
    /\ rcall.pc = "acquire"
    /\ nresync = 11
    /\ ~cancelled

\* C16 (as claimed): every slot taken is given back when its resync ends,
\* so the free slots and the running resyncs add up to 10 in every state.
C16_SlotsReturned == worker_slots + RunningResyncs = RESYNC_WORKER_COUNT

\* C18: get_replication_config returns Ok(None) exactly when the metadata
\* lookup fails with ConfigNotFound, Ok(Some(config)) with the lookup's
\* config when it succeeds, and the lookup's own error for every other
\* error.
C18_ConfigNotFoundIsNone ==
    rcall.lookup # NoResult =>
       /\ (rcall.cfg.tag = "OkNone") <=>
             (rcall.lookup = [tag |-> "Err", val |-> "ConfigNotFound"])
       /\ rcall.lookup.tag = "Ok" =>
             rcall.cfg = [tag |-> "OkSome", val |-> rcall.lookup.val]
       /\ (rcall.lookup.tag = "Err" /\ rcall.lookup.val # "ConfigNotFound") =>
             rcall.cfg = rcall.lookup

\* C18 witness: the lookup of a resync that holds a slot failed with
\* ConfigNotFound and the call went on with Ok(None).
C18_Witness ==
    /\ rcall.lookup = [tag |-> "Err", val |-> "ConfigNotFound"]
    /\ rcall.cfg = [tag |-> "OkNone", val |-> ""]
    /\ rcall.pc = "panicked"
    /\ worker_slots < RESYNC_WORKER_COUNT

\* Option<OffsetDateTime> values compare as Rust compares them: None is
\* less than every Some, and two Some compare by their instants.
OptionLe(a, b) ==
    IF a = None THEN TRUE
    ELSE IF b = None THEN FALSE
    ELSE a <= b

StartedOrLater == {"ResyncStarted", "ResyncCompleted", "ResyncFailed", "ResyncCanceled"}

\* C17: every target record of a stored blob that is ResyncStarted or later
\* has last_update set and start_time <= last_update; and when a record
\* that is ResyncStarted is marked ResyncCompleted, the status the call
\* goes on to save holds the record as ResyncCompleted with
\* start_time <= last_update.
C17_StartBeforeLastUpdate ==
    /\ [](\A b \in DOMAIN durable :
            \A arn \in DOMAIN Stored(b).targets_map :
               LET t == Stored(b).targets_map[arn]
               IN  t.resync_status \in StartedOrLater =>
                      /\ t.last_update # None
                      /\ OptionLe(t.start_time, t.last_update))
    /\ [][\A p \in Callers :
             (/\ pc[p] # "save"
              /\ pc'[p] = "save"
              /\ call'[p].status = "ResyncCompleted"
              /\ TargetOf(status_map, call'[p].bucket, call'[p].arn).resync_status
                    = "ResyncStarted")
             => LET t == snap'[p].targets_map[call'[p].arn]
                IN  /\ t.resync_status = "ResyncCompleted"
                    /\ t.last_update # None
                    /\ OptionLe(t.start_time, t.last_update)]_vars

\* C17 witness: two mark_status calls on (b1, t1) have returned Ok, the
\* second one with ResyncCompleted; the blob holds the record with the
\* last_update of the second call.
C17_Witness ==
    /\ ncall = 2
    /\ pc["p1"] = "ok"
    /\ "b1" \in DOMAIN durable
    /\ DOMAIN Stored("b1").targets_map = {"t1"}
    /\ Stored("b1").targets_map["t1"].resync_status = "ResyncCompleted"
    /\ Stored("b1").targets_map["t1"].last_update = 4
    /\ Stored("b1").targets_map["t1"].replicated_count = 0

C20_ExistentialChecks ==
    /\ \A a \in DOMAIN rd : rd[a].arn = a
    /\ dret.fn = "set" =>
          /\ dret.arg \in DOMAIN rd
          /\ rd[dret.arg].replicate = dret.value
    /\ dret.fn = "replicate_any" =>
          (dret.value <=> \E a \in DOMAIN rd : rd[a].replicate)
    /\ dret.fn = "is_synchronous" =>
          (dret.value <=> \E a \in DOMAIN rd : rd[a].synchronous)
    /\ dret.fn = "must_resync" =>
          (dret.value <=> \E a \in DOMAIN rsd : rsd[a].replicate)
    /\ dret.fn = "must_resync_target" =>
          (dret.value <=> (dret.arg \in DOMAIN rsd /\ rsd[dret.arg].replicate))

\* C20 witness: arn1 was set to replicate, then set again not to; arn2 is
\* set synchronous only; replicate_any has returned false.
C20_Witness ==
    /\ nupdates = 3
    /\ DOMAIN rsd = {}
    /\ DOMAIN rd = {"arn1", "arn2"}
    /\ ~rd["arn1"].replicate
    /\ rd["arn2"].synchronous
    /\ dret.fn = "replicate_any"
    /\ dret.value = FALSE

-----------------------------------------------------------------------------
(* Claims C21..C26: the MRF ledger, the worker pool, and failures and       *)
(* frames of mark_status and the persist loop                               *)

\* C21: the ledger never holds two entries of one (bucket, object); an
\* operation that has failed n > 0 times since its entry was created has
\* exactly one entry, with retry_count n (a second record of the same key
\* increments, never duplicates), and an operation that has not failed
\* has none.
C21_LedgerKeyed ==
    /\ \A i, j \in 1..Len(ledger) :
          (ledger[i].bucket = ledger[j].bucket /\ ledger[i].object = ledger[j].object)
             => i = j
    /\ \A op \in PoolOps :
          LET at == LedgerPositions(ledger, op.bucket, op.name)
          IN  IF fails[op] = 0
              THEN at = {}
              ELSE /\ Cardinality(at) = 1
                   /\ \A i \in at : ledger[i].retry_count = fails[op]

\* C21 witness: three operations have failed and each has been redriven
\* once without success: three entries, each with retry_count 2.
C21_Witness ==
    /\ Len(ledger) = 3
    /\ \A i \in 1..Len(ledger) : ledger[i].retry_count = 2
    /\ \A op \in PoolOps : fails[op] = 2

\* C22: active_workers never exceeds max_workers, under every interleaving
\* of submit, resize and shutdown; every operation submitted is either
\* executed or still in some worker's queue, in one place only; and a
\* step that removes a worker leaves every operation of its queue in the
\* queues that remain.
C22_PoolInvariant ==
    /\ [](/\ active_workers \in 0..PoolMaxWorkers
          /\ submitted = executed \cup Queued(queues)
          /\ executed \cap Queued(queues) = {})
    /\ [][Len(queues') < Len(queues) =>
             /\ Queued(queues') = Queued(queues)
             /\ (queues[Len(queues)] = <<>> \/ Len(queues') > 0)]_vars

\* C22 witness: with the pool at max_workers, a resize removed a worker
\* whose queue held an operation; that operation has since been executed
\* by the worker it was moved to, and the pool has been shut down.
C22_Witness ==
    /\ moved # {}
    /\ moved \subseteq executed
    /\ submitted = PoolOps
    /\ Len(queues) = 1
    /\ cancelled
    /\ active_workers = 0

\* The step is one pass of the persist loop's for loop, over bucket b.
PersistVisits(b) ==
    /\ ploop.pc = "scan"
    /\ ploop.todo # <<>>
    /\ Head(ploop.todo) = b
    /\ ploop' # ploop

\* C23: a durable write that fails inside a persist tick neither ends the
\* loop nor the scan (the buckets after it are still to be visited), leaves
\* every blob and every recorded flush time as they were, and the bucket
\* whose write failed is written again when the next tick visits it.
C23_FailedWriteRetried ==
    [][\A b \in PersistBuckets : PersistVisits(b) =>
          /\ b \in flushed'.err =>
                /\ ploop'.pc = "scan"
                /\ ploop'.todo = Tail(ploop.todo)
                /\ last_update_times' = last_update_times
                /\ durable' = durable
          /\ b \in flushed.err => (b \in flushed'.err \/ b \in DOMAIN flushed'.cur)]_vars

\* C24: when the durable write of a mark_status call fails, the call
\* returns the error and the step changes neither the in-memory map nor
\* any blob: the record of the call's target still exists and carries the
\* status the call set, its last_update and the bucket's are those the
\* call stamped or later ones, and the blob stored for the bucket, if there
\* is one, is older than the in-memory status.
C24_ErrKeepsMemory ==
    [][\A p \in Callers :
          (pc[p] = "save" /\ pc'[p] = "err") =>
             LET b == call[p].bucket
                 arn == call[p].arn
             IN  /\ status_map' = status_map
                 /\ durable' = durable
                 /\ b \in DOMAIN status_map'
                 /\ arn \in DOMAIN status_map'[b].targets_map
                 /\ status_map'[b].targets_map[arn].resync_status = call[p].status
                 /\ snap[p].targets_map[arn].last_update # None
                 /\ OptionLe(snap[p].targets_map[arn].last_update,
                             status_map'[b].targets_map[arn].last_update)
                 /\ snap[p].last_update # None
                 /\ OptionLe(snap[p].last_update, status_map'[b].last_update)
                 /\ b \in DOMAIN durable' =>
                       /\ Stored(b).last_update < status_map'[b].last_update
                       /\ Stored(b) # status_map'[b]]_vars

\* C24 witness: a first call stored t1 as ResyncPending, a second call set
\* t1 to ResyncStarted and returned the storage error: memory shows
\* ResyncStarted, the blob still ResyncPending.
C24_Witness ==
    /\ pc["p1"] = "err"
    /\ "b1" \in DOMAIN durable
    /\ Stored("b1").targets_map["t1"].resync_status = "ResyncPending"
    /\ status_map["b1"].targets_map["t1"].resync_status = "ResyncStarted"
    /\ Stored("b1").last_update < status_map["b1"].last_update

\* C25 (as claimed): in every state with no mark_status call between its
\* two steps and the persist loop outside a scan, a bucket whose current
\* in-memory last_update is the flush time the persist loop has recorded
\* for it has a blob that decodes to its in-memory status.
C25_CleanMeansFlushed ==
    ((\A p \in Callers : pc[p] # "save") /\ ploop.pc # "scan") =>
       \A b \in DOMAIN status_map :
          (b \in DOMAIN last_update_times
              /\ last_update_times[b] = status_map[b].last_update) =>
             /\ b \in DOMAIN durable
             /\ Stored(b) = status_map[b]

\* The step is the first step of a mark_status call by p.
MarkStatusStep(p) == pc[p] # "save" /\ pc'[p] = "save"

\* A target's record with the two fields mark_status assigns blanked.
BesidesStatus(t) == [t EXCEPT !.resync_status = "NoResync", !.last_update = None]

\* C26: a mark_status call changes, in memory, only resync_status and
\* last_update of the record of its (bucket, arn) and the bucket's
\* last_update: the record's resync_id, start_time, resync_before_date and
\* four counters, the bucket's version and id, every other target and
\* every other bucket stay as they were.  No step of mark_status,
\* inc_stats or the persist loop removes a bucket or a target; a bucket
\* that appears has version 1 and id 0, and a record that appears has no
\* resync_id, start_time or resync_before_date, counters 0 when mark_status
\* created it, and status NoResync when inc_stats created it.
C26_MarkStatusFrame ==
    [][/\ \A p \in Callers : MarkStatusStep(p) =>
             LET b == call'[p].bucket
                 arn == call'[p].arn
             IN  /\ DOMAIN status_map' = (DOMAIN status_map) \cup {b}
                 /\ \A b2 \in (DOMAIN status_map) \ {b} : status_map'[b2] = status_map[b2]
                 /\ b \in DOMAIN status_map =>
                       /\ status_map'[b].version = status_map[b].version
                       /\ status_map'[b].id = status_map[b].id
                       /\ DOMAIN status_map'[b].targets_map
                             = (DOMAIN status_map[b].targets_map) \cup {arn}
                       /\ \A a2 \in (DOMAIN status_map[b].targets_map) \ {arn} :
                             status_map'[b].targets_map[a2] = status_map[b].targets_map[a2]
                 /\ b \notin DOMAIN status_map =>
                       DOMAIN status_map'[b].targets_map = {arn}
                 /\ BesidesStatus(status_map'[b].targets_map[arn])
                       = BesidesStatus(TargetOf(status_map, b, arn))
       /\ \A b \in DOMAIN status_map :
             /\ b \in DOMAIN status_map'
             /\ DOMAIN status_map[b].targets_map \subseteq DOMAIN status_map'[b].targets_map
       /\ \A b \in DOMAIN status_map' :
             /\ b \notin DOMAIN status_map =>
                   /\ status_map'[b].version = 1
                   /\ status_map'[b].id = 0
             /\ \A arn \in DOMAIN status_map'[b].targets_map :
                   (b \notin DOMAIN status_map \/ arn \notin DOMAIN status_map[b].targets_map) =>
                      LET t == status_map'[b].targets_map[arn]
                      IN  /\ t.resync_id = ""
                          /\ t.start_time = None
                          /\ t.resync_before_date = None
                          /\ (\E p \in Callers : MarkStatusStep(p)) =>
                                /\ t.replicated_count = 0
                                /\ t.replicated_size = 0
                                /\ t.failed_count = 0
                                /\ t.failed_size = 0
                          /\ IncStatsStep => t.resync_status = "NoResync"]_vars

\* C26 witness: inc_stats has counted an object for t1 and one for t2 of
\* b1, the persist loop has written b1, and mark_status has then set t1 to
\* ResyncStarted: t1 keeps its counters and t2 is as inc_stats left it.
C26_Witness ==
    /\ pc["p1"] = "save"
    /\ call["p1"].bucket = "b1"
    /\ call["p1"].arn = "t1"
    /\ ploop.nticks > 0
    /\ "b1" \in DOMAIN durable
    /\ DOMAIN status_map["b1"].targets_map = {"t1", "t2"}
    /\ status_map["b1"].targets_map["t1"].resync_status = "ResyncStarted"
    /\ status_map["b1"].targets_map["t1"].replicated_count = 1
    /\ status_map["b1"].targets_map["t2"].resync_status = "NoResync"
    /\ status_map["b1"].targets_map["t2"].replicated_count = 1

====
